---- MODULE Spec2Model ----
(***************************************************************************)
(* Model of the block-building code of vq_ae/layers/conv_block.py          *)
(* (DownBlock, UpBlock, EnvelopBlock, PreActFixupResBlock) and of          *)
(* utils/train_helpers.py (maybe_repeat_layer).                            *)
(*                                                                         *)
(* Python values are tagged records.  A tensor is abstracted to one        *)
(* integer entry together with its channel width; a convolution to the     *)
(* affine map  weight * x + bias  on that entry.                           *)
(***************************************************************************)
EXTENDS Integers, Sequences, FiniteSets, TLC

VARIABLES
  call,     \* the last constructor or function call, with its arguments
  result,   \* what that call returned or raised
  net,      \* the DownBlock, UpBlock or EnvelopBlock it built
  res,      \* the PreActFixupResBlock it built
  method,   \* the last method call on net or res, with its outcome
  n_init,   \* completed initialize_weights calls on res
  n_train   \* optimizer steps taken on res

vars == <<call, result, net, res, method, n_init, n_train>>

(***************************************************************************)
(* Bounds of the model                                                     *)
(***************************************************************************)
MaxC == 2
MaxN == 2
MaxLayers == 2
MaxLen == 2
MaxRep == 2
MaxDiv == 2
MaxInit == 2
MaxTrain == 1
MaxDepth == 1

(***************************************************************************)
(* Python values                                                           *)
(***************************************************************************)
NoneV == [tag |-> "none"]
IntV(k) == [tag |-> "int", ival |-> k]
StrV(s) == [tag |-> "str", sval |-> s]
\* a dataclass-style ModuleConf: not iterable, always truthy
ObjConf(t) == [tag |-> "obj", target |-> t]
\* a dict / DictConfig: its items in insertion order, each <<key, value>>
DictV(items) == [tag |-> "dict", items |-> items]
\* a list or tuple
SeqV(elems) == [tag |-> "seq", elems |-> elems]

Null == [tag |-> "null"]
NoCall == [fn |-> "none"]
NoResult == [exc |-> "none", fn |-> "none"]

\* isinstance(v, Iterable)
IsIterable(v) == v.tag \in {"seq", "dict", "str"}

\* isinstance(v, Sequence)
IsSequence(v) == v.tag \in {"seq", "str"}

\* isinstance(v, int)
IsInt(v) == v.tag = "int"

\* len(v) of a list, a tuple or a mapping
PyLen(v) ==
  CASE v.tag = "seq" -> Len(v.elems)
    [] v.tag = "dict" -> Len(v.items)

\* bool(v), as filter(None, ...) evaluates it
Truthy(v) ==
  CASE v.tag = "none" -> FALSE
    [] v.tag = "int" -> v.ival # 0
    [] v.tag = "str" -> v.sval # ""
    [] v.tag = "seq" -> Len(v.elems) > 0
    [] v.tag = "dict" -> Len(v.items) > 0
    [] OTHER -> TRUE

\* iter(v): the elements of a list, the keys of a mapping
PyIter(v) ==
  CASE v.tag = "seq" -> v.elems
    [] v.tag = "dict" -> [i \in 1..Len(v.items) |-> StrV(v.items[i][1])]

\* the keys of a mapping
Keys(items) == {items[i][1] : i \in 1..Len(items)}

\* {**conf, **{key: value}} on the items of conf
Merge(items, key, value) ==
  IF key \in Keys(items)
  THEN [i \in 1..Len(items) |->
          IF items[i][1] = key THEN <<key, value>> ELSE items[i]]
  ELSE Append(items, <<key, value>>)

\* [x] * n
Repeat(x, n) == [i \in 1..n |-> x]

\* filter(None, s)
RECURSIVE FilterTruthy(_)
FilterTruthy(s) ==
  IF s = <<>> THEN <<>>
  ELSE IF Truthy(Head(s)) THEN <<Head(s)>> \o FilterTruthy(Tail(s))
  ELSE FilterTruthy(Tail(s))

\* the construction request  instantiate(conf, in_channels=.., out_channels=..)
Request(conf, in_c, out_c) ==
  [conf |-> conf, in_channels |-> in_c, out_channels |-> out_c]

(***************************************************************************)
(* EnvelopBlock.__init__.instantiate_layers                                *)
(***************************************************************************)
\* the branch  len(layers) == 2 and isinstance(layers[1], int)
IsRepeatPair(layers) ==
  /\ PyLen(layers) = 2
  /\ layers.tag = "seq"
  /\ IsInt(layers.elems[2])

\* layers[1] on a mapping whose keys are strings raises KeyError
SubscriptRaises(layers) ==
  /\ IsIterable(layers)
  /\ PyLen(layers) = 2
  /\ layers.tag = "dict"

\* ExpandLayers repeating once too often
ExpandLayersOffByOne(layers) ==
  IF IsIterable(layers)
  THEN IF IsRepeatPair(layers)
       THEN Repeat(layers.elems[1], layers.elems[2].ival + 1)
       ELSE PyIter(layers)
  ELSE <<layers>>

ExpandLayers(layers) ==
  IF IsIterable(layers)
  THEN IF IsRepeatPair(layers)
       THEN Repeat(layers.elems[1], layers.elems[2].ival)
       ELSE PyIter(layers)
  ELSE <<layers>>

instantiate_layers(layers, in_c, out_c) ==
  IF SubscriptRaises(layers)
  THEN [exc |-> "KeyError", seq |-> <<>>]
  ELSE LET kept == FilterTruthy(ExpandLayers(layers))
       IN [exc |-> "none",
           seq |-> [i \in 1..Len(kept) |-> Request(kept[i], in_c, out_c)]]

(***************************************************************************)
(* utils.train_helpers.maybe_repeat_layer                                  *)
(***************************************************************************)
\* maybe_repeat_layer without its assertion
maybe_repeat_layer_unchecked(layer, repetitions) ==
  IF ~IsSequence(layer)
  THEN [exc |-> "none", val |-> SeqV(Repeat(layer, repetitions))]
  ELSE [exc |-> "none", val |-> layer]

maybe_repeat_layer(layer, repetitions) ==
  IF ~IsSequence(layer)
  THEN [exc |-> "none", val |-> SeqV(Repeat(layer, repetitions))]
  ELSE IF PyLen(layer) = repetitions
       THEN [exc |-> "none", val |-> layer]
       ELSE [exc |-> "AssertionError", val |-> NoneV]

(***************************************************************************)
(* The external factory, hydra.utils.instantiate, at its boundary: it      *)
(* builds a module from a dataclass config or from a mapping that names a  *)
(* _target_; anything else is no module and the construction fails.        *)
(***************************************************************************)
Instantiable(conf) ==
  \/ conf.tag = "obj"
  \/ conf.tag = "dict" /\ "_target_" \in Keys(conf.items)

AllInstantiable(reqs) == \A i \in 1..Len(reqs) : Instantiable(reqs[i].conf)

(***************************************************************************)
(* EnvelopBlock                                                            *)
(***************************************************************************)
FailedModule(cls, exc) == [exc |-> exc, cls |-> cls, layers |-> <<>>]

\* nn.Sequential(*pre, envelope, *post)
EnvelopChain(pre, envelope, post) == pre \o <<envelope>> \o post

\* the widths the pre-layers are built with
PreWidths(in_c, out_c) == <<in_c, in_c>>

\* PostWidths taking the envelope's own widths
PostWidthsOfEnvelope(in_c, out_c) == <<in_c, out_c>>

\* the widths the post-layers are built with
PostWidths(in_c, out_c) == <<out_c, out_c>>

EnvelopBlock(envelop_conf, in_c, out_c, pre_layers, post_layers) ==
  LET prw == PreWidths(in_c, out_c)
      pow == PostWidths(in_c, out_c)
      pre == instantiate_layers(pre_layers, prw[1], prw[2])
      post == instantiate_layers(post_layers, pow[1], pow[2])
      envelope == Request(envelop_conf, in_c, out_c)
  IN IF pre.exc # "none" THEN FailedModule("EnvelopBlock", pre.exc)
     ELSE IF ~AllInstantiable(pre.seq)
       THEN FailedModule("EnvelopBlock", "InstantiationException")
     ELSE IF ~Instantiable(envelop_conf)
       THEN FailedModule("EnvelopBlock", "InstantiationException")
     ELSE IF post.exc # "none" THEN FailedModule("EnvelopBlock", post.exc)
     ELSE IF ~AllInstantiable(post.seq)
       THEN FailedModule("EnvelopBlock", "InstantiationException")
     ELSE [exc |-> "none", cls |-> "EnvelopBlock",
           layers |-> EnvelopChain(pre.seq, envelope, post.seq)]

(***************************************************************************)
(* DownBlock / UpBlock                                                     *)
(***************************************************************************)
\* {**conv_conf, **{'mode': mode}}
TagMode(conv_conf, mode) == DictV(Merge(conv_conf.items, "mode", mode))

\* [{**conv_conf, **{'mode': 'same'}}] * n_layers
SameLayers(conv_conf, n_layers) ==
  SeqV(Repeat(TagMode(conv_conf, "same"), n_layers.ival))

\* {**conv_conf} needs a mapping and  [..] * n_layers  an integer
ListBuildRaises(conv_conf, n_pre_layers, n_post_layers) ==
  \/ conv_conf.tag # "dict"
  \/ ~IsInt(n_pre_layers)
  \/ ~IsInt(n_post_layers)

\* the first stage that failed to build, 0 when there is none
FirstFailed(stages) ==
  IF \E j \in 1..Len(stages) : stages[j].exc # "none"
  THEN CHOOSE j \in 1..Len(stages) :
         /\ stages[j].exc # "none"
         /\ \A i \in 1..(j - 1) : stages[i].exc = "none"
  ELSE 0

\* DownStageChannels with 2*j written for 2**j
DownStageChannelsTimes(in_channels, j) ==
  <<in_channels * (2 * j), in_channels * (2 * (j + 1))>>

\* stage j (from 0) of a DownBlock: (in_channels*(2**j), in_channels*(2**(j+1)))
DownStageChannels(in_channels, j) ==
  <<in_channels * (2 ^ j), in_channels * (2 ^ (j + 1))>>

DownOutChannels(in_channels, n_down) == in_channels * 2 ^ n_down

DownBlock(in_channels, n_down, conv_conf, n_pre_layers, n_post_layers) ==
  IF ListBuildRaises(conv_conf, n_pre_layers, n_post_layers)
  THEN FailedModule("DownBlock", "TypeError")
  ELSE
    LET pre_layers == SameLayers(conv_conf, n_pre_layers)
        post_layers == SameLayers(conv_conf, n_post_layers)
        stages == [p \in 1..n_down |->
                     LET c == DownStageChannels(in_channels, p - 1)
                     IN EnvelopBlock(TagMode(conv_conf, "down"), c[1], c[2],
                                     pre_layers, post_layers)]
        bad == FirstFailed(stages)
    IN IF bad # 0 THEN FailedModule("DownBlock", stages[bad].exc)
       ELSE [exc |-> "none", cls |-> "DownBlock", layers |-> stages,
             out_channels |-> DownOutChannels(in_channels, n_down)]

\* UpStageChannels with the pair in DownBlock's order
UpStageChannelsUnreversed(out_channels, j) ==
  <<out_channels * (2 ^ j), out_channels * (2 ^ (j + 1))>>

\* for j in range(n_up-1, -1, -1): (out_channels*(2**(j+1)), out_channels*(2**j))
UpStageChannels(out_channels, j) ==
  <<out_channels * (2 ^ (j + 1)), out_channels * (2 ^ j)>>

UpInChannels(out_channels, n_up) == out_channels * 2 ^ n_up

UpBlock(out_channels, n_up, conv_conf, n_pre_layers, n_post_layers) ==
  IF ListBuildRaises(conv_conf, n_pre_layers, n_post_layers)
  THEN FailedModule("UpBlock", "TypeError")
  ELSE
    LET pre_layers == SameLayers(conv_conf, n_pre_layers)
        post_layers == SameLayers(conv_conf, n_post_layers)
        stages == [p \in 1..n_up |->
                     LET c == UpStageChannels(out_channels, n_up - p)
                     IN EnvelopBlock(TagMode(conv_conf, "up"), c[1], c[2],
                                     pre_layers, post_layers)]
        bad == FirstFailed(stages)
    IN IF bad # 0 THEN FailedModule("UpBlock", stages[bad].exc)
       ELSE [exc |-> "none", cls |-> "UpBlock", layers |-> stages,
             in_channels |-> UpInChannels(out_channels, n_up)]

(***************************************************************************)
(* forward of DownBlock, UpBlock and EnvelopBlock: nn.Sequential applies   *)
(* its elements in order.  A tensor is followed by its channel width; the  *)
(* module built from a request accepts width in_channels and produces      *)
(* width out_channels.                                                     *)
(***************************************************************************)
Tensor(width) == [exc |-> "none", width |-> width, trace |-> <<>>]

ApplyLayer(req, x) ==
  IF x.exc # "none" THEN x
  ELSE IF x.width # req.in_channels
    THEN [x EXCEPT !.exc = "RuntimeError"]
  ELSE [x EXCEPT !.width = req.out_channels, !.trace = Append(x.trace, req)]

\* the order in which nn.Sequential visits its elements
VisitOrder(n) == [i \in 1..n |-> i]

RECURSIVE ApplyChain(_, _, _)
ApplyChain(chain, order, x) ==
  IF order = <<>> THEN x
  ELSE ApplyChain(chain, Tail(order), ApplyLayer(chain[Head(order)], x))

EnvelopForward(block, x) ==
  ApplyChain(block.layers, VisitOrder(Len(block.layers)), x)

RECURSIVE ApplyStages(_, _)
ApplyStages(stages, x) ==
  IF stages = <<>> THEN x
  ELSE ApplyStages(Tail(stages), EnvelopForward(Head(stages), x))

forward(module, x) ==
  IF module.cls = "EnvelopBlock"
  THEN EnvelopForward(module, x)
  ELSE ApplyStages(module.layers, x)

(***************************************************************************)
(* PreActFixupResBlock                                                     *)
(***************************************************************************)
Modes == {"down", "same", "up", "out"}

\* IdentitySkipModes without "out"
IdentitySkipModesSameOnly == {"same"}

\* the modes for which an unchanged width needs no skip convolution
IdentitySkipModes == {"same", "out"}

Max2(a, b) == IF a >= b THEN a ELSE b

\* a convolution built by the factory: weight * x + bias on the one entry
\* the model follows; d.has_bias tells whether its config gives it a bias
Conv(in_c, out_c, weight, d) ==
  [in_channels |-> in_c, out_channels |-> out_c, weight |-> weight,
   has_bias |-> d.has_bias, bias |-> IF d.has_bias THEN d.b ELSE 0]

ConvApply(conv, v) ==
  conv.weight * v + (IF conv.has_bias THEN conv.bias ELSE 0)

\* not (mode in ("same", "out") and in_channels == out_channels)
HasSkip(mode, in_channels, out_channels) ==
  ~(mode \in IdentitySkipModes /\ in_channels = out_channels)

\* the biases every block owns
BranchBiasNames ==
  {"bias1a", "bias1b", "bias2a", "bias2b", "bias3a", "bias3b", "bias4"}

\* SkipBiasNames without bias1d
SkipBiasNamesOne == {"bias1c"}

\* the biases only a block with a skip convolution owns
SkipBiasNames == {"bias1c", "bias1d"}

BiasNames(skip) ==
  IF skip THEN BranchBiasNames \cup SkipBiasNames ELSE BranchBiasNames

\* nn.Parameter(torch.zeros(1))
InitialBias == 0

\* nn.Parameter(torch.ones(1))
InitialScale == 1

\* max(max(in_channels, out_channels) // bottleneck_divisor, 1)
BranchChannels(in_channels, out_channels, bottleneck_divisor) ==
  Max2(Max2(in_channels, out_channels) \div bottleneck_divisor, 1)

\* d: what the factory built the convolutions with (has_bias, from their
\* config) and drew for them: the weight w3 of branch_conv3, the weight w
\* of the three convolutions initialize_weights draws again, the bias b
PreActFixupResBlock(in_channels, out_channels, mode, bottleneck_divisor, activation, d) ==
  IF mode \notin Modes
  THEN [exc |-> "AssertionError", cls |-> "PreActFixupResBlock"]
  ELSE
    LET branch_channels ==
          BranchChannels(in_channels, out_channels, bottleneck_divisor)
        skip == HasSkip(mode, in_channels, out_channels)
    IN [exc |-> "none", cls |-> "PreActFixupResBlock",
        mode |-> mode,
        activation |-> activation,
        bias |-> [b \in BiasNames(skip) |-> InitialBias],
        scale |-> InitialScale,
        branch_conv1 |-> Conv(in_channels, branch_channels, d.w, d),
        branch_conv2 |-> Conv(branch_channels, branch_channels, d.w, d),
        branch_conv3 |-> Conv(branch_channels, out_channels, d.w3, d),
        skip_conv |-> IF skip
                      THEN Conv(in_channels, out_channels, d.w, d)
                      ELSE NoneV]

\* the configured activation on one entry
Activate(activation, v) ==
  CASE activation = "ReLU" -> Max2(v, 0)
    [] activation = "Softplus" -> Max2(v, 0) + 1

\* nn.init.constant_(self.branch_conv3.weight, val=0)
Conv3InitWeight == 0

\* num_layers ** (-0.5) raises ZeroDivisionError for num_layers = 0, before
\* any weight is written
InitRaises(num_layers) == num_layers = 0

\* initialize_weights with branch_conv3 drawn like the others (the
\* commented-out kaiming_normal_ line) instead of set to 0
initialize_weights_kaiming(self, num_layers, w) ==
  IF InitRaises(num_layers) THEN self
  ELSE [self EXCEPT
          !.branch_conv1.weight = w,
          !.branch_conv2.weight = w,
          !.branch_conv3.weight = w,
          !.skip_conv = IF self.skip_conv # NoneV
                        THEN [self.skip_conv EXCEPT !.weight = w]
                        ELSE NoneV]

\* w: what the normal initialisers drew
initialize_weights(self, num_layers, w) ==
  IF InitRaises(num_layers) THEN self
  ELSE [self EXCEPT
          !.branch_conv1.weight = w,
          !.branch_conv2.weight = w,
          !.branch_conv3.weight = Conv3InitWeight,
          !.skip_conv = IF self.skip_conv # NoneV
                        THEN [self.skip_conv EXCEPT !.weight = w]
                        ELSE NoneV]

\* the skip path of forward
SkipPath(self, input) ==
  IF self.skip_conv # NoneV
  THEN ConvApply(self.skip_conv, input + self.bias["bias1c"]) + self.bias["bias1d"]
  ELSE input

\* out = out * self.scale + self.bias4
ScaleShift(self, out) == out * self.scale + self.bias["bias4"]

\* PreActFixupResBlock.forward on a tensor of the block's input width
ResForward(self, input) ==
  LET o1 == Activate(self.activation, input + self.bias["bias1a"])
      o2 == ConvApply(self.branch_conv1, o1 + self.bias["bias1b"])
      o3 == Activate(self.activation, o2 + self.bias["bias2a"])
      o4 == ConvApply(self.branch_conv2, o3 + self.bias["bias2b"])
      o5 == Activate(self.activation, o4 + self.bias["bias3a"])
      o6 == ConvApply(self.branch_conv3, o5 + self.bias["bias3b"])
      o7 == ScaleShift(self, o6)
  IN o7 + SkipPath(self, input)

\* one optimizer step of trainer.fit: every parameter moves by g
TrainedConv(conv, g) ==
  [conv EXCEPT !.weight = @ + g, !.bias = IF conv.has_bias THEN @ + g ELSE @]

TrainedBlock(self, g) ==
  [self EXCEPT
     !.bias = [b \in DOMAIN self.bias |-> self.bias[b] + g],
     !.scale = @ + g,
     !.branch_conv1 = TrainedConv(@, g),
     !.branch_conv2 = TrainedConv(@, g),
     !.branch_conv3 = TrainedConv(@, g),
     !.skip_conv = IF self.skip_conv # NoneV
                   THEN TrainedConv(self.skip_conv, g)
                   ELSE NoneV]

(***************************************************************************)
(* Inputs                                                                  *)
(***************************************************************************)
Channels == 1..MaxC

ConvConf == ObjConf("torch.nn.Conv2d")
ResConf == DictV(<<<<"_target_", "PreActFixupResBlock">>>>)
ResConfOut == DictV(<<<<"_target_", "PreActFixupResBlock">>, <<"mode", "out">>>>)
ResConfDiv ==
  DictV(<<<<"_target_", "PreActFixupResBlock">>, <<"mode", "out">>,
          <<"bottleneck_divisor", "4">>>>)

\* a single ModuleConf: a dataclass or a mapping
Configs == {ConvConf, ResConf, ResConfOut, ResConfDiv}

\* the elements of an explicit list: configs, and None
ListElems == {ConvConf, ResConf, NoneV}

Lists == UNION {[1..m -> ListElems] : m \in 0..MaxLen}

RepeatPairs == {SeqV(<<c, IntV(k)>>) : c \in {ConvConf, ResConf}, k \in 0..MaxRep}

LayerSpecs == {NoneV} \cup Configs \cup {SeqV(l) : l \in Lists} \cup RepeatPairs

LayerCounts == {NoneV} \cup {IntV(k) : k \in 0..MaxLayers}

\* widths a pyramid of MaxN stages over Channels can meet
Widths == {c * 2 ^ n : c \in Channels, n \in 0..MaxN}

RandomWeights == {-1, 1}

FactoryDraws ==
  [w : RandomWeights, w3 : RandomWeights, has_bias : BOOLEAN, b : RandomWeights]

Activations == {"ReLU", "Softplus"}

InputValues == {0, 1}

Gradients == {-1, 1}

(***************************************************************************)
(* The state machine: one action per constructor, function and method      *)
(***************************************************************************)
Init ==
  /\ call = NoCall
  /\ result = NoResult
  /\ net = Null
  /\ res = Null
  /\ method = NoCall
  /\ n_init = 0
  /\ n_train = 0

Built(m) == m # Null /\ m.exc = "none"

\* every entity is constructed once, at model-build time: a run makes one
\* constructor or function call and then calls methods on what it built
Idle == call = NoCall

NewDownBlock ==
  /\ Idle
  /\ \E c \in Channels, n \in 0..MaxN, conf \in {ResConf, ResConfOut, ConvConf},
     n_pre \in LayerCounts, n_post \in LayerCounts :
    /\ call' = [fn |-> "DownBlock", in_channels |-> c, n_down |-> n,
                conv_conf |-> conf, n_pre_layers |-> n_pre,
                n_post_layers |-> n_post]
    /\ net' = DownBlock(c, n, conf, n_pre, n_post)
    /\ result' = [exc |-> net'.exc, fn |-> "DownBlock"]
    /\ res' = Null /\ method' = NoCall /\ n_init' = 0 /\ n_train' = 0

NewUpBlock ==
  /\ Idle
  /\ \E c \in Channels, n \in 0..MaxN, conf \in {ResConf, ResConfOut, ConvConf},
     n_pre \in LayerCounts, n_post \in LayerCounts :
    /\ call' = [fn |-> "UpBlock", out_channels |-> c, n_up |-> n,
                conv_conf |-> conf, n_pre_layers |-> n_pre,
                n_post_layers |-> n_post]
    /\ net' = UpBlock(c, n, conf, n_pre, n_post)
    /\ result' = [exc |-> net'.exc, fn |-> "UpBlock"]
    /\ res' = Null /\ method' = NoCall /\ n_init' = 0 /\ n_train' = 0

NewEnvelopBlock ==
  /\ Idle
  /\ \E conf \in {ConvConf, TagMode(ResConf, "down")},
     in_c \in Channels, out_c \in Channels,
     pre \in LayerSpecs, post \in LayerSpecs :
    /\ call' = [fn |-> "EnvelopBlock", envelop_conf |-> conf,
                in_channels |-> in_c, out_channels |-> out_c,
                pre_layers |-> pre, post_layers |-> post]
    /\ net' = EnvelopBlock(conf, in_c, out_c, pre, post)
    /\ result' = [exc |-> net'.exc, fn |-> "EnvelopBlock"]
    /\ res' = Null /\ method' = NoCall /\ n_init' = 0 /\ n_train' = 0

CallInstantiateLayers ==
  /\ Idle
  /\ \E layers \in LayerSpecs, in_c \in Channels, out_c \in Channels :
    /\ call' = [fn |-> "instantiate_layers", layers |-> layers,
                in_channels |-> in_c, out_channels |-> out_c]
    /\ LET r == instantiate_layers(layers, in_c, out_c)
       IN result' = [exc |-> r.exc, fn |-> "instantiate_layers", seq |-> r.seq]
    /\ net' = Null /\ res' = Null /\ method' = NoCall
    /\ n_init' = 0 /\ n_train' = 0

CallMaybeRepeatLayer ==
  /\ Idle
  /\ \E layer \in LayerSpecs, repetitions \in 0..(MaxRep + 1) :
    /\ call' = [fn |-> "maybe_repeat_layer", layer |-> layer,
                repetitions |-> repetitions]
    /\ LET r == maybe_repeat_layer(layer, repetitions)
       IN result' = [exc |-> r.exc, fn |-> "maybe_repeat_layer", val |-> r.val]
    /\ net' = Null /\ res' = Null /\ method' = NoCall
    /\ n_init' = 0 /\ n_train' = 0

\* forward reads the module and writes nothing: a run applies it once
Forward ==
  /\ Built(net)
  /\ method = NoCall
  /\ \E w \in Widths :
       LET y == forward(net, Tensor(w))
       IN method' = [fn |-> "forward", exc |-> y.exc, input_width |-> w,
                     width |-> y.width, trace |-> y.trace]
  /\ UNCHANGED <<call, result, net, res, n_init, n_train>>

NewResBlock ==
  /\ Idle
  /\ \E in_c \in Channels, out_c \in Channels, mode \in Modes \cup {"sideways"},
     div \in 1..MaxDiv, act \in Activations, d \in FactoryDraws :
    /\ call' = [fn |-> "PreActFixupResBlock", in_channels |-> in_c,
                out_channels |-> out_c, mode |-> mode,
                bottleneck_divisor |-> div]
    /\ res' = PreActFixupResBlock(in_c, out_c, mode, div, act, d)
    /\ result' = [exc |-> res'.exc, fn |-> "PreActFixupResBlock"]
    /\ net' = Null /\ method' = NoCall /\ n_init' = 0 /\ n_train' = 0

InitializeWeights ==
  /\ Built(res)
  /\ n_init < MaxInit
  /\ \E num_layers \in 0..MaxDepth, w \in RandomWeights :
       /\ res' = initialize_weights(res, num_layers, w)
       /\ method' = [fn |-> "initialize_weights",
                     exc |-> IF InitRaises(num_layers)
                             THEN "ZeroDivisionError" ELSE "none"]
       /\ n_init' = IF InitRaises(num_layers) THEN n_init ELSE n_init + 1
  /\ UNCHANGED <<call, result, net, n_train>>

ForwardRes ==
  /\ Built(res)
  /\ \E x \in InputValues :
       method' = [fn |-> "forward", exc |-> "none", input |-> x,
                  output |-> ResForward(res, x)]
  /\ UNCHANGED <<call, result, net, res, n_init, n_train>>

TrainStep ==
  /\ Built(res)
  /\ n_train < MaxTrain
  /\ \E g \in Gradients : res' = TrainedBlock(res, g)
  /\ method' = [fn |-> "fit"]
  /\ n_train' = n_train + 1
  /\ UNCHANGED <<call, result, net, n_init>>

Next ==
  \/ NewDownBlock
  \/ NewUpBlock
  \/ NewEnvelopBlock
  \/ CallInstantiateLayers
  \/ CallMaybeRepeatLayer
  \/ Forward
  \/ NewResBlock
  \/ InitializeWeights
  \/ ForwardRes
  \/ TrainStep

Spec == Init /\ [][Next]_vars

(***************************************************************************)
(* Properties                                                              *)
(***************************************************************************)
\* conf is a mapping tagged with mode m
HasMode(conf, m) ==
  /\ conf.tag = "dict"
  /\ \E i \in 1..Len(conf.items) : conf.items[i] = <<"mode", m>>

\* a layer count, a falsy one counted as 0
CountOf(n) == IF IsInt(n) THEN n.ival ELSE 0

\* v is a config: a dataclass or a non-empty mapping
IsConfigValue(v) == v.tag = "obj" \/ (v.tag = "dict" /\ Len(v.items) > 0)

\* the envelope request of a stage built with npre pre-layers
EnvelopeOf(stage, npre) == stage.layers[npre + 1]

\* how many elements of a stage carry mode m
ModeCount(stage, m) ==
  Cardinality({i \in 1..Len(stage.layers) : HasMode(stage.layers[i].conf, m)})

\* C1: a DownBlock(C, N, ...) that was built holds exactly N EnvelopBlock
\* stages, stage j built with in_channels C*2^j and out_channels C*2^(j+1)
\* around one envelope tagged mode 'down', consecutive stages agree on the
\* width between them, and out_channels is C*2^N (C for N = 0).
DownBlockChannels ==
  (call.fn = "DownBlock" /\ Built(net)) =>
    LET C == call.in_channels
        N == call.n_down
        npre == CountOf(call.n_pre_layers)
    IN /\ Len(net.layers) = N
       /\ net.out_channels = C * 2 ^ N
       /\ N = 0 => net.layers = <<>> /\ net.out_channels = C
       /\ \A j \in 0..(N - 1) :
            LET stage == net.layers[j + 1]
                env == EnvelopeOf(stage, npre)
            IN /\ stage.cls = "EnvelopBlock"
               /\ env.in_channels = C * 2 ^ j
               /\ env.out_channels = C * 2 ^ (j + 1)
               /\ HasMode(env.conf, "down")
               /\ ModeCount(stage, "down") = 1
               /\ j < N - 1 =>
                    env.out_channels =
                      EnvelopeOf(net.layers[j + 2], npre).in_channels

DownBlockChannelsWitness ==
  /\ call.fn = "DownBlock"
  /\ Built(net)
  /\ call.n_down = 2
  /\ call.in_channels = 2
  /\ net.out_channels = 8
  /\ CountOf(call.n_pre_layers) = 1

\* C2: an UpBlock(C, N, ...) that was built holds exactly N EnvelopBlock
\* stages, stage j built with in_channels C*2^(N-j) and out_channels
\* C*2^(N-j-1) around one envelope tagged mode 'up', and in_channels is
\* C*2^N; the DownBlock(C, N) of the same arguments takes width C to that
\* C*2^N, and the UpBlock takes C*2^N back to C.
UpBlockChannels ==
  (call.fn = "UpBlock" /\ Built(net)) =>
    LET C == call.out_channels
        N == call.n_up
        npre == CountOf(call.n_pre_layers)
        down == DownBlock(C, N, call.conv_conf, call.n_pre_layers,
                          call.n_post_layers)
    IN /\ Len(net.layers) = N
       /\ net.in_channels = C * 2 ^ N
       /\ \A j \in 0..(N - 1) :
            LET stage == net.layers[j + 1]
                env == EnvelopeOf(stage, npre)
            IN /\ stage.cls = "EnvelopBlock"
               /\ env.in_channels = C * 2 ^ (N - j)
               /\ env.out_channels = C * 2 ^ (N - j - 1)
               /\ HasMode(env.conf, "up")
               /\ ModeCount(stage, "up") = 1
       /\ N > 0 => /\ EnvelopeOf(net.layers[1], npre).in_channels = C * 2 ^ N
                   /\ EnvelopeOf(net.layers[N], npre).out_channels = C
       /\ Built(down)
       /\ down.out_channels = net.in_channels
       /\ forward(down, Tensor(C)).exc = "none"
       /\ forward(down, Tensor(C)).width = net.in_channels
       /\ (method.fn = "forward" /\ method.input_width = net.in_channels) =>
            method.exc = "none" /\ method.width = C

UpBlockChannelsWitness ==
  /\ call.fn = "UpBlock"
  /\ Built(net)
  /\ call.n_up = 2
  /\ call.out_channels = 2
  /\ CountOf(call.n_post_layers) = 1
  /\ method.fn = "forward"
  /\ method.input_width = 8
  /\ method.exc = "none"
  /\ method.width = 2

\* C3: a constructed PreActFixupResBlock has a skip convolution, built at
\* width in_channels -> out_channels, iff its mode is not in {same, out} or
\* in_channels differs from out_channels; without one the skip path of
\* forward is the identity.
SkipConvPresence ==
  (call.fn = "PreActFixupResBlock" /\ Built(res)) =>
    /\ (res.skip_conv # NoneV) <=>
         (call.mode \notin {"same", "out"} \/ call.in_channels # call.out_channels)
    /\ res.skip_conv # NoneV =>
         /\ res.skip_conv.in_channels = call.in_channels
         /\ res.skip_conv.out_channels = call.out_channels
    /\ res.skip_conv = NoneV => \A x \in InputValues : SkipPath(res, x) = x

SkipConvPresenceWitness ==
  /\ call.fn = "PreActFixupResBlock"
  /\ Built(res)
  /\ call.mode = "same"
  /\ call.in_channels # call.out_channels
  /\ res.skip_conv # NoneV

\* C4: instantiate_layers turns a single ModuleConfig cfg, a mapping-type
\* config included, into the one-element sequence [cfg].
SingleConfigNormalized ==
  (call.fn = "instantiate_layers" /\ call.layers \in Configs) =>
    /\ result.exc = "none"
    /\ result.seq =
         <<Request(call.layers, call.in_channels, call.out_channels)>>

\* C5: instantiate_layers turns None into the empty sequence, a pair
\* (cfg, k) with an integer k >= 0 into k copies of cfg, and any other
\* sequence of m configs into exactly those m configs in their order.
SequencesNormalized ==
  call.fn = "instantiate_layers" =>
    LET layers == call.layers
        req(c) == Request(c, call.in_channels, call.out_channels)
    IN /\ layers = NoneV => result.exc = "none" /\ result.seq = <<>>
       /\ (/\ layers.tag = "seq"
           /\ Len(layers.elems) = 2
           /\ IsConfigValue(layers.elems[1])
           /\ IsInt(layers.elems[2])
           /\ layers.elems[2].ival >= 0) =>
            /\ result.exc = "none"
            /\ Len(result.seq) = layers.elems[2].ival
            /\ \A i \in 1..Len(result.seq) : result.seq[i] = req(layers.elems[1])
       /\ (/\ layers.tag = "seq"
           /\ \A i \in 1..Len(layers.elems) : IsConfigValue(layers.elems[i])) =>
            /\ result.exc = "none"
            /\ Len(result.seq) = Len(layers.elems)
            /\ \A i \in 1..Len(result.seq) : result.seq[i] = req(layers.elems[i])

SequencesNormalizedWitness ==
  /\ call.fn = "instantiate_layers"
  /\ call.layers = SeqV(<<ConvConf, IntV(2)>>)
  /\ result.seq = <<Request(ConvConf, call.in_channels, call.out_channels),
                    Request(ConvConf, call.in_channels, call.out_channels)>>

\* C6: in a DownBlock or UpBlock every stage holds the conv_conf tagged
\* mode 'same' n_pre_layers times, its envelope, and the same config
\* n_post_layers times; with a falsy count (None or 0) construction
\* succeeds and the stage has no such layers.
StageLayerCounts ==
  (call.fn \in {"DownBlock", "UpBlock"} /\ call.conv_conf.tag = "dict") =>
    LET npre == CountOf(call.n_pre_layers)
        npost == CountOf(call.n_post_layers)
        same == TagMode(call.conv_conf, "same")
    IN /\ Built(net)
       /\ \A j \in 1..Len(net.layers) :
            LET chain == net.layers[j].layers
            IN /\ Len(chain) = npre + 1 + npost
               /\ \A i \in 1..npre : chain[i].conf = same
               /\ \A i \in 1..npost : chain[npre + 1 + i].conf = same

\* C7: an EnvelopBlock that was built is one chain: the pre-layers, each
\* built with in_channels = out_channels = the block's in_channels, then
\* the one envelope built with (in_channels, out_channels), then the
\* post-layers, each built with in_channels = out_channels = the block's
\* out_channels; forward applies the elements in this order.
EnvelopChainOrder ==
  (call.fn = "EnvelopBlock" /\ Built(net)) =>
    LET in_c == call.in_channels
        out_c == call.out_channels
        pre == instantiate_layers(call.pre_layers, in_c, in_c).seq
        post == instantiate_layers(call.post_layers, out_c, out_c).seq
        chain == net.layers
        p == Len(pre) + 1
    IN /\ Len(chain) = Len(pre) + 1 + Len(post)
       /\ \A i \in 1..Len(pre) :
            /\ chain[i] = pre[i]
            /\ chain[i].in_channels = in_c
            /\ chain[i].out_channels = in_c
       /\ chain[p] = Request(call.envelop_conf, in_c, out_c)
       /\ \A i \in 1..Len(post) :
            /\ chain[p + i] = post[i]
            /\ chain[p + i].in_channels = out_c
            /\ chain[p + i].out_channels = out_c
       /\ \A i \in 1..Len(chain) :
            chain[i].in_channels # chain[i].out_channels => i = p
       /\ method.fn = "forward" =>
            /\ Len(method.trace) <= Len(chain)
            /\ \A i \in 1..Len(method.trace) : method.trace[i] = chain[i]
            /\ method.exc = "none" => method.trace = chain
            /\ method.input_width = in_c =>
                 method.exc = "none" /\ method.width = out_c

EnvelopChainOrderWitness ==
  /\ call.fn = "EnvelopBlock"
  /\ Built(net)
  /\ call.in_channels = 1
  /\ call.out_channels = 2
  /\ call.pre_layers = SeqV(<<ConvConf, ResConf>>)
  /\ call.post_layers = SeqV(<<ResConf, IntV(2)>>)
  /\ method.fn = "forward"
  /\ method.exc = "none"
  /\ Len(method.trace) = 5
  /\ method.width = 2

\* the state C8 is about: a same-mode block of equal widths on which
\* initialize_weights has completed and no training step was taken
InitializedSameBlock ==
  /\ call.fn = "PreActFixupResBlock"
  /\ Built(res)
  /\ call.mode = "same"
  /\ call.in_channels = call.out_channels
  /\ n_init >= 1
  /\ n_train = 0

ZeroInputForward == method.fn = "forward" /\ method.input = 0

RepeatLayerChecked ==
  call.fn = "maybe_repeat_layer" =>
    LET layer == call.layer
        k == call.repetitions
    IN /\ (layer.tag = "seq" /\ Len(layer.elems) # k) =>
            result.exc = "AssertionError" /\ result.val = NoneV
       /\ (layer.tag = "seq" /\ Len(layer.elems) = k) =>
            result.exc = "none" /\ result.val = layer
       /\ layer.tag # "seq" =>
            /\ result.exc = "none"
            /\ result.val.tag = "seq"
            /\ Len(result.val.elems) = k
            /\ \A i \in 1..k : result.val.elems[i] = layer

RepeatLayerCheckedWitness ==
  /\ call.fn = "maybe_repeat_layer"
  /\ call.layer = SeqV(<<ConvConf, ResConf>>)
  /\ call.repetitions = 3
  /\ result.exc = "AssertionError"

\* the bias parameters and the scale as construction leaves them
FreshParameters ==
  /\ \A b \in DOMAIN res.bias : res.bias[b] = 0
  /\ res.scale = 1

\* C10 as stated: a constructed block owns 4 bias parameters without a skip
\* convolution and 6 with one, all 0 and the scale 1 at construction.
BiasCountFourOrSix ==
  (call.fn = "PreActFixupResBlock" /\ Built(res)) =>
    /\ Cardinality(DOMAIN res.bias) = IF res.skip_conv # NoneV THEN 6 ELSE 4
    /\ method = NoCall => FreshParameters

\* C10 as amended: a constructed block owns 7 bias parameters without a
\* skip convolution and 9 with one, and one scale; all biases are 0 and the
\* scale is 1 at construction, and initialize_weights leaves every bias
\* and the scale unchanged.
BiasCountSevenOrNine ==
  /\ []((call.fn = "PreActFixupResBlock" /\ Built(res)) =>
          /\ Cardinality(DOMAIN res.bias) =
               IF res.skip_conv # NoneV THEN 9 ELSE 7
          /\ res.scale \in Int
          /\ method = NoCall => FreshParameters)
  /\ [][(Built(res) /\ method'.fn = "initialize_weights") =>
          (res'.bias = res.bias /\ res'.scale = res.scale)]_vars

BiasCountWitness ==
  /\ call.fn = "PreActFixupResBlock"
  /\ Built(res)
  /\ res.skip_conv # NoneV
  /\ Cardinality(DOMAIN res.bias) = 9
  /\ n_train = 1
  /\ res.bias["bias1d"] # 0
  /\ method.fn = "initialize_weights"
  /\ method.exc = "none"

====
